---- MODULE Spec2Model ----
(***************************************************************************)
(* Model of the costar keyboard firmware: the scan interrupt's debounce,   *)
(* the key dispatcher (normal / magic / recording), the 6-slot USB report  *)
(* queue and the macro record / replay buffer.                             *)
(*                                                                         *)
(* The C functions are operators on a record holding the firmware's        *)
(* globals; an action runs one whole handler and stores the result.        *)
(***************************************************************************)
EXTENDS Integers, Sequences, FiniteSets, TLC

(***************************************************************************)
(* Layout.  KEYBOARD_LAYOUT comes from the keyboard model header; this is  *)
(* a nine-key board: the magic key (KC_RGUI), one more modifier and seven  *)
(* normal keys, four of which double as magic-mode commands.               *)
(***************************************************************************)
KEY_A == 4
KEY_B == 5
KEY_C == 6
KEY_D == 7
KEY_Q == 20
KEY_R == 21
KEY_X == 27
MOD_LSFT == 2
MOD_RGUI == 128

MAGIC_KEY == [type |-> "MOD", value |-> MOD_RGUI]

layout ==
  << [type |-> "MOD", value |-> MOD_RGUI],
     [type |-> "MOD", value |-> MOD_LSFT],
     [type |-> "KEY", value |-> KEY_Q],
     [type |-> "KEY", value |-> KEY_R],
     [type |-> "KEY", value |-> KEY_X],
     [type |-> "KEY", value |-> KEY_B],
     [type |-> "KEY", value |-> KEY_A],
     [type |-> "KEY", value |-> KEY_C],
     [type |-> "KEY", value |-> KEY_D] >>

NKEY == Len(layout)
Keys == 0 .. (NKEY - 1)
Layout(k) == layout[k + 1]

K_MAGIC == 0
K_LSFT == 1
K_Q == 2
K_R == 3
K_X == 4
K_B == 5
K_A == 6
K_C == 7
K_D == 8

IS_MODIFIER(l) == l.type = "MOD"

\* sizeof(replay_buf): 255 in the firmware, scaled down here.
ReplayBufSize == 4

\* Number of debounced edges in a run of the edge-level specification.
MaxEdges == 12

\* Number of contact changes the hardware may present in a scan-level run.
MaxFlips == 4

\* Number of invocations of the scan interrupt the model lets be active.
MaxNest == 2

\* Keys whose edges are explored by each specification.
QueueKeys == {K_LSFT, K_Q, K_R, K_X, K_B, K_A, K_C, K_D}
ModeKeys == {K_MAGIC, K_Q, K_R, K_X, K_A}
ScanKeys == {K_MAGIC, K_R}

VARIABLES
  key,             \* key[k].pressed, key[k].bounce
  queue,           \* uint8_t queue[7]
  mod_keys,
  magic_mode,
  recording_mode,
  replay_buf,      \* the first replay_buf_len entries of replay_buf[]
  replay_buf_len,
  halted,          \* jump_bootloader() was called: the firmware is gone
  contact,         \* hardware: the current contact reading of each key
  flips,           \* hardware: contact changes so far
  nedges,          \* edges dispatched so far (edge-level specification)
  hist,            \* hardware: the last eight contact samples of each key
  timer_enabled,   \* hardware: the poll timer may raise the scan interrupt
  isr,             \* the active invocations of the scan interrupt, innermost last
  calls,           \* observer: queue primitives invoked by the last step
  reports,         \* observer: reports handed to usb_keyboard_send() by the last step
  edges,           \* observer: debounced edges dispatched by the last step
  session,         \* observer: the current recording session
  press_seq,       \* observer: keys pressed so far while nothing else happened
  unreleased,      \* observer: press edge emitted, no release edge since
  open             \* observer: press edge emitted, pressed flag not reset since

vars == << key, queue, mod_keys, magic_mode, recording_mode, replay_buf,
           replay_buf_len, halted, contact, flips, nedges, calls, reports, edges,
           session, press_seq, unreleased, open, hist, timer_enabled, isr >>

(***************************************************************************)
(* Bit operations on uint8_t.                                              *)
(***************************************************************************)
RECURSIVE BitOr(_, _)
BitOr(a, b) ==
  IF a = 0 THEN b
  ELSE IF b = 0 THEN a
  ELSE (IF a % 2 = 1 \/ b % 2 = 1 THEN 1 ELSE 0) + 2 * BitOr(a \div 2, b \div 2)

RECURSIVE BitAndNot(_, _)
BitAndNot(a, b) ==
  IF a = 0 THEN 0
  ELSE (IF a % 2 = 1 /\ b % 2 = 0 THEN 1 ELSE 0) + 2 * BitAndNot(a \div 2, b \div 2)

Shl1(b) == (2 * b) % 256

(***************************************************************************)
(* The firmware's globals as one record.                                   *)
(***************************************************************************)
Cur ==
  [ key |-> key, queue |-> queue, mod_keys |-> mod_keys,
    magic_mode |-> magic_mode, recording_mode |-> recording_mode,
    replay_buf |-> replay_buf, replay_buf_len |-> replay_buf_len,
    halted |-> halted,
    calls |-> << >>, reports |-> << >>, edges |-> << >>,
    session |-> session, unreleased |-> unreleased, open |-> open ]

Call(s, op, arg) == [s EXCEPT !.calls = Append(@, [op |-> op, arg |-> arg])]

send(s) ==
  [s EXCEPT !.reports =
     Append(@, [keys |-> [i \in 0 .. 5 |-> s.queue[i]], mods |-> s.mod_keys])]

\* Variant: a full queue refuses the new code instead of evicting the oldest.
ll_key_press_keep_oldest(s0, k) ==
  LET s == Call(s0, "ll_key_press", k)
      q == [i \in 0 .. 6 |->
              IF i = 0 THEN k
              ELSE IF i <= 5 THEN s.queue[i - 1]
              ELSE s.queue[i]]
  IN  send([s EXCEPT !.queue = IF s.queue[5] # 0 THEN @ ELSE q])

\* Variant: the shift loop runs upwards and smears slot 0 over the others.
ll_key_press_ascending(s0, k) ==
  LET s == Call(s0, "ll_key_press", k)
      q == [i \in 0 .. 6 |->
              IF i = 0 THEN k
              ELSE IF i <= 5 THEN s.queue[0]
              ELSE s.queue[i]]
  IN  send([s EXCEPT !.queue = q])

ll_key_press(s0, k) ==
  LET s == Call(s0, "ll_key_press", k)
      q == [i \in 0 .. 6 |->
              IF i = 0 THEN k
              ELSE IF i <= 5 THEN s.queue[i - 1]
              ELSE s.queue[i]]
  IN  send([s EXCEPT !.queue = q])

ll_modifier_press(s0, mod) ==
  LET s == Call(s0, "ll_modifier_press", mod)
  IN  send([s EXCEPT !.mod_keys = BitOr(@, mod)])

\* Variant: a code that is not found is taken to sit in slot 0.
ll_key_release_unchecked(s0, k) ==
  LET s == Call(s0, "ll_key_release", k)
      hits == {i \in 0 .. 5 : s.queue[i] = k}
      first == IF hits = {} THEN 0
               ELSE CHOOSE i \in hits : \A j \in hits : i <= j
      q == [i \in 0 .. 6 |->
              IF i >= first /\ i < 6 THEN s.queue[i + 1] ELSE s.queue[i]]
  IN  send([s EXCEPT !.queue = q])

\* Variant: the matching slot is zeroed and nothing is moved.
ll_key_release_no_shift(s0, k) ==
  LET s == Call(s0, "ll_key_release", k)
      hits == {i \in 0 .. 5 : s.queue[i] = k}
      first == IF hits = {} THEN 6
               ELSE CHOOSE i \in hits : \A j \in hits : i <= j
      q == [i \in 0 .. 6 |-> IF i = first /\ i < 6 THEN 0 ELSE s.queue[i]]
  IN  send([s EXCEPT !.queue = q])

ll_key_release(s0, k) ==
  LET s == Call(s0, "ll_key_release", k)
      hits == {i \in 0 .. 5 : s.queue[i] = k}
      first == IF hits = {} THEN 6
               ELSE CHOOSE i \in hits : \A j \in hits : i <= j
      q == [i \in 0 .. 6 |->
              IF i >= first /\ i < 6 THEN s.queue[i + 1] ELSE s.queue[i]]
  IN  send([s EXCEPT !.queue = q])

ll_modifier_release(s0, mod) ==
  LET s == Call(s0, "ll_modifier_release", mod)
  IN  send([s EXCEPT !.mod_keys = BitAndNot(@, mod)])

is_magic_key(k) ==
  /\ Layout(k).type = MAGIC_KEY.type
  /\ Layout(k).value = MAGIC_KEY.value

\* Variant: the queue and the modifiers are cleared, the pressed flags are not.
clear_pressed_keeps_flags(s0) ==
  LET s == Call(s0, "clear_pressed", 0)
  IN  send([s EXCEPT
              !.queue = [i \in 0 .. 6 |-> 0],
              !.mod_keys = 0,
              !.open = [i \in Keys |-> FALSE]])

clear_pressed(s0) ==
  LET s == Call(s0, "clear_pressed", 0)
  IN  send([s EXCEPT
              !.key = [i \in Keys |-> [@[i] EXCEPT !.pressed = FALSE]],
              !.queue = [i \in 0 .. 6 |-> 0],
              !.mod_keys = 0,
              !.open = [i \in Keys |-> FALSE]])

\* Variant: no room check.
add_to_replay_buf_unchecked(s, k) ==
  [s EXCEPT !.replay_buf = Append(@, k),
            !.replay_buf_len = (@ + 1) % 256]

add_to_replay_buf(s, k) ==
  IF s.replay_buf_len + 1 < ReplayBufSize
  THEN [s EXCEPT !.replay_buf = Append(@, k),
                 !.replay_buf_len = (@ + 1) % 256]
  ELSE [s EXCEPT !.recording_mode = FALSE,
                 !.session = [@ EXCEPT !.overflowed = TRUE]]

\* Observer: an operation forwarded to the report queue while recording.
Forwarded(s, rec, op, arg) ==
  IF rec
  THEN [s EXCEPT !.session =
          [@ EXCEPT !.ops = Append(@, [op |-> op, arg |-> arg])]]
  ELSE s

\* Variant: every release in magic mode starts a recording.
magic_key_release_any_key(s, k) ==
  clear_pressed([s EXCEPT !.recording_mode = TRUE,
                          !.replay_buf = << >>,
                          !.replay_buf_len = 0,
                          !.magic_mode = FALSE,
                          !.session = [ops |-> << >>, overflowed |-> FALSE]])

\* Variant: starting a recording leaves magic mode on.
magic_key_release_stay_magic(s, k) ==
  IF Layout(k).value = KEY_Q
  THEN clear_pressed([s EXCEPT !.recording_mode = TRUE,
                               !.replay_buf = << >>,
                               !.replay_buf_len = 0,
                               !.session = [ops |-> << >>, overflowed |-> FALSE]])
  ELSE s

\* Variant: a new session keeps the entries of the previous one.
magic_key_release_keep_buffer(s, k) ==
  IF Layout(k).value = KEY_Q
  THEN clear_pressed([s EXCEPT !.recording_mode = TRUE,
                               !.magic_mode = FALSE,
                               !.session = [ops |-> << >>, overflowed |-> FALSE]])
  ELSE s

\* Variant: a recording starts without the clear.
magic_key_release_no_clear(s, k) ==
  IF Layout(k).value = KEY_Q
  THEN [s EXCEPT !.recording_mode = TRUE,
                 !.replay_buf = << >>,
                 !.replay_buf_len = 0,
                 !.magic_mode = FALSE,
                 !.session = [ops |-> << >>, overflowed |-> FALSE]]
  ELSE s

magic_key_release(s, k) ==
  IF Layout(k).value = KEY_Q
  THEN clear_pressed([s EXCEPT !.recording_mode = TRUE,
                               !.replay_buf = << >>,
                               !.replay_buf_len = 0,
                               !.magic_mode = FALSE,
                               !.session = [ops |-> << >>, overflowed |-> FALSE]])
  ELSE s

\* Variant: releases are forwarded to the queue in magic mode too.
key_release_ignores_magic(s0, k) ==
  LET s == [s0 EXCEPT !.key[k].pressed = FALSE]
      rec == s.recording_mode
      s1 == IF rec THEN add_to_replay_buf(s, k) ELSE s
  IN  IF IS_MODIFIER(Layout(k))
      THEN Forwarded(ll_modifier_release(s1, Layout(k).value), rec,
                     "ll_modifier_release", Layout(k).value)
      ELSE Forwarded(ll_key_release(s1, Layout(k).value), rec,
                     "ll_key_release", Layout(k).value)

key_release(s0, k) ==
  LET s == [s0 EXCEPT !.key[k].pressed = FALSE]
  IN  IF s.magic_mode
      THEN magic_key_release(s, k)
      ELSE LET rec == s.recording_mode
               s1 == IF rec THEN add_to_replay_buf(s, k) ELSE s
           IN  IF IS_MODIFIER(Layout(k))
               THEN Forwarded(ll_modifier_release(s1, Layout(k).value), rec,
                              "ll_modifier_release", Layout(k).value)
               ELSE Forwarded(ll_key_release(s1, Layout(k).value), rec,
                              "ll_key_release", Layout(k).value)

RECURSIVE key_press(_, _)
RECURSIVE replay_loop(_, _)

\* Variant: replay starts from whatever is pressed.
replay_keypresses_no_clear(s0) ==
  replay_loop(Call(Call(s0, "replay_keypresses", 0), "clear_pressed", 0), 0)

replay_keypresses(s0) ==
  replay_loop(clear_pressed(Call(s0, "replay_keypresses", 0)), 0)

\* Variant: every entry is replayed as a press.
replay_loop_press_only(s, i) ==
  IF s.halted \/ ~(i < s.replay_buf_len)
  THEN s
  ELSE replay_loop(key_press(s, s.replay_buf[i + 1]), (i + 1) % 256)

replay_loop(s, i) ==
  IF s.halted \/ ~(i < s.replay_buf_len)
  THEN s
  ELSE LET k == s.replay_buf[i + 1]
       IN  IF ~s.key[k].pressed
           THEN replay_loop(key_press(s, k), (i + 1) % 256)
           ELSE replay_loop([key_release(s, k) EXCEPT !.open[k] = FALSE],
                            (i + 1) % 256)

magic_key_press(s0, k) ==
  LET s1 == IF is_magic_key(k) THEN [s0 EXCEPT !.magic_mode = FALSE] ELSE s0
      s2 == IF Layout(k).value = KEY_X
            THEN ll_key_release(ll_key_press(
                   ll_key_release(ll_key_press(s1, KEY_X), KEY_X), KEY_X), KEY_X)
            ELSE s1
      s3 == IF Layout(k).value = KEY_R
            THEN replay_keypresses([s2 EXCEPT !.magic_mode = FALSE])
            ELSE s2
  IN  IF Layout(k).value = KEY_B /\ ~s3.halted
      THEN [s3 EXCEPT !.halted = TRUE]
      ELSE s3

\* Variant: leaving recording mode by the trigger key also clears.
key_press_clear_on_exit(s0, k) ==
  LET s == [s0 EXCEPT !.key[k].pressed = TRUE]
  IN  IF s.magic_mode
      THEN magic_key_press(s, k)
      ELSE IF is_magic_key(k)
      THEN IF s.recording_mode
           THEN clear_pressed([s EXCEPT !.recording_mode = FALSE])
           ELSE [s EXCEPT !.magic_mode = TRUE]
      ELSE LET rec == s.recording_mode
               s1 == IF rec THEN add_to_replay_buf(s, k) ELSE s
           IN  IF IS_MODIFIER(Layout(k))
               THEN Forwarded(ll_modifier_press(s1, Layout(k).value), rec,
                              "ll_modifier_press", Layout(k).value)
               ELSE Forwarded(ll_key_press(s1, Layout(k).value), rec,
                              "ll_key_press", Layout(k).value)

key_press(s0, k) ==
  LET s == [s0 EXCEPT !.key[k].pressed = TRUE]
  IN  IF s.magic_mode
      THEN magic_key_press(s, k)
      ELSE IF is_magic_key(k)
      THEN IF s.recording_mode
           THEN [s EXCEPT !.recording_mode = FALSE]
           ELSE [s EXCEPT !.magic_mode = TRUE]
      ELSE LET rec == s.recording_mode
               s1 == IF rec THEN add_to_replay_buf(s, k) ELSE s
           IN  IF IS_MODIFIER(Layout(k))
               THEN Forwarded(ll_modifier_press(s1, Layout(k).value), rec,
                              "ll_modifier_press", Layout(k).value)
               ELSE Forwarded(ll_key_press(s1, Layout(k).value), rec,
                              "ll_key_press", Layout(k).value)

(***************************************************************************)
(* Initial state: the globals' initialisers and init().                    *)
(***************************************************************************)
Void == << -1 >>

Init ==
  /\ key = [k \in Keys |-> [pressed |-> FALSE, bounce |-> 0]]
  /\ queue = [i \in 0 .. 6 |-> 0]
  /\ mod_keys = 0
  /\ magic_mode = FALSE
  /\ recording_mode = FALSE
  /\ replay_buf = << >>
  /\ replay_buf_len = 0
  /\ halted = FALSE
  /\ contact = [k \in Keys |-> 0]
  /\ flips = 0
  /\ nedges = 0
  /\ hist = [k \in Keys |-> << 0, 0, 0, 0, 0, 0, 0, 0 >>]
  /\ timer_enabled = TRUE
  /\ isr = << >>
  /\ calls = << >>
  /\ reports = << >>
  /\ edges = << >>
  /\ session = [ops |-> << >>, overflowed |-> FALSE]
  /\ press_seq = << >>
  /\ unreleased = [k \in Keys |-> FALSE]
  /\ open = [k \in Keys |-> FALSE]

\* Store the globals a handler left behind.
Commit(s) ==
  /\ key' = s.key
  /\ queue' = s.queue
  /\ mod_keys' = s.mod_keys
  /\ magic_mode' = s.magic_mode
  /\ recording_mode' = s.recording_mode
  /\ replay_buf' = s.replay_buf
  /\ replay_buf_len' = s.replay_buf_len
  /\ halted' = s.halted
  /\ calls' = s.calls
  /\ reports' = s.reports
  /\ edges' = s.edges
  /\ session' = s.session
  /\ unreleased' = s.unreleased
  /\ open' = s.open

\* Observer: an edge handed to the dispatcher, with what it found: the modes,
\* the key's register, whether the key's code was in the six report slots,
\* and the key's press history.
Edge(s, type, k) ==
  [s EXCEPT !.edges =
     Append(@, [type |-> type, k |-> k,
                magic |-> s.magic_mode,
                recording |-> s.recording_mode,
                queued |-> \E i \in 0 .. 5 : s.queue[i] = Layout(k).value,
                bounce |-> s.key[k].bounce,
                pressed |-> s.key[k].pressed,
                unreleased |-> s.unreleased[k],
                open |-> s.open[k]])]

\* press_seq: the keys pressed so far, as long as the run consists only of
\* presses of distinct normal keys in normal mode.
NextPressSeq(type, k) ==
  IF /\ type = "press"
     /\ press_seq # Void
     /\ ~IS_MODIFIER(Layout(k))
     /\ ~magic_mode /\ ~recording_mode
     /\ \A i \in 1 .. Len(press_seq) : press_seq[i] # k
  THEN Append(press_seq, k)
  ELSE Void

(***************************************************************************)
(* Edge-level actions: one debounced edge reaches the dispatcher.  The     *)
(* scan interrupt calls key_press(k) only for a key whose pressed flag is  *)
(* clear and key_release(k) only for one whose flag is set.                *)
(***************************************************************************)
KeyPressEdge(k) ==
  /\ ~halted
  /\ ~key[k].pressed
  /\ Commit(key_press(Edge(Cur, "press", k), k))
  /\ press_seq' = NextPressSeq("press", k)
  /\ UNCHANGED << contact, flips, hist, timer_enabled, isr >>

KeyReleaseEdge(k) ==
  /\ ~halted
  /\ key[k].pressed
  /\ Commit(key_release(Edge(Cur, "release", k), k))
  /\ press_seq' = NextPressSeq("release", k)
  /\ UNCHANGED << contact, flips, hist, timer_enabled, isr >>

(***************************************************************************)
(* The scan interrupt.  Every key is probed in index order; a key whose    *)
(* register reads 0b01111111 while unpressed is pressed, one whose         *)
(* register reads 0b10000000 while pressed is released, and the register   *)
(* is shifted.  jump_bootloader() does not return, so a halted scan stops  *)
(* where it is.                                                            *)
(***************************************************************************)
\* Variant: the press test forgets the pressed flag.
scan_key_ungated(s0, samp, k) ==
  LET b  == BitOr(s0.key[k].bounce, samp[k])
      s1 == [s0 EXCEPT !.key[k].bounce = b]
      s2 == IF b = 127
            THEN key_press([Edge(s1, "press", k) EXCEPT
                              !.unreleased[k] = TRUE, !.open[k] = TRUE], k)
            ELSE s1
      s3 == IF ~s2.halted /\ s2.key[k].bounce = 128 /\ s2.key[k].pressed
            THEN key_release([Edge(s2, "release", k) EXCEPT
                                !.unreleased[k] = FALSE, !.open[k] = FALSE], k)
            ELSE s2
  IN  IF s3.halted THEN s3
      ELSE [s3 EXCEPT !.key[k].bounce = Shl1(@)]

\* Variant: the press pattern is one sample short.
scan_key_six_samples(s0, samp, k) ==
  LET b  == BitOr(s0.key[k].bounce, samp[k])
      s1 == [s0 EXCEPT !.key[k].bounce = b]
      s2 == IF b = 63 /\ ~s1.key[k].pressed
            THEN key_press([Edge(s1, "press", k) EXCEPT
                              !.unreleased[k] = TRUE, !.open[k] = TRUE], k)
            ELSE s1
      s3 == IF ~s2.halted /\ s2.key[k].bounce = 128 /\ s2.key[k].pressed
            THEN key_release([Edge(s2, "release", k) EXCEPT
                                !.unreleased[k] = FALSE, !.open[k] = FALSE], k)
            ELSE s2
  IN  IF s3.halted THEN s3
      ELSE [s3 EXCEPT !.key[k].bounce = Shl1(@)]

scan_key(s0, samp, k) ==
  LET b  == BitOr(s0.key[k].bounce, samp[k])
      s1 == [s0 EXCEPT !.key[k].bounce = b]
      s2 == IF b = 127 /\ ~s1.key[k].pressed
            THEN key_press([Edge(s1, "press", k) EXCEPT
                              !.unreleased[k] = TRUE, !.open[k] = TRUE], k)
            ELSE s1
      s3 == IF ~s2.halted /\ s2.key[k].bounce = 128 /\ s2.key[k].pressed
            THEN key_release([Edge(s2, "release", k) EXCEPT
                                !.unreleased[k] = FALSE, !.open[k] = FALSE], k)
            ELSE s2
  IN  IF s3.halted THEN s3
      ELSE [s3 EXCEPT !.key[k].bounce = Shl1(@)]

RECURSIVE scan_loop(_, _, _)
scan_loop(s, samp, k) ==
  IF s.halted \/ ~(k < NKEY)
  THEN s
  ELSE scan_loop(scan_key(s, samp, k), samp, k + 1)

Changed(samp) == {k \in Keys : samp[k] # contact[k]}

\* The body of the interrupt between its two timer calls, on the samples
\* the matrix presents.
ScanBody(samp) ==
  /\ flips + Cardinality(Changed(samp)) <= MaxFlips
  /\ flips' = flips + Cardinality(Changed(samp))
  /\ contact' = samp
  /\ hist' = [k \in Keys |-> Append(Tail(hist[k]), samp[k])]
  /\ Commit(scan_loop(Cur, samp, 0))
  /\ press_seq' = Void
  /\ UNCHANGED nedges

\* One whole scan cycle: the timer is disabled on entry and enabled again
\* on exit.
ISR(samp) ==
  /\ ~halted
  /\ timer_enabled
  /\ isr = << >>
  /\ ScanBody(samp)
  /\ UNCHANGED << timer_enabled, isr >>

Samples ==
  {samp \in [Keys -> {0, 1}] : \A k \in Keys \ ScanKeys : samp[k] = contact[k]}

ScanNext == \E samp \in Samples : ISR(samp)

(***************************************************************************)
(* The scan cycle in three steps, to see whether invocations can overlap:  *)
(* the interrupt is taken and disables the timer, the matrix is scanned,   *)
(* the timer is enabled again and the interrupt returns.  The timer raises *)
(* the interrupt only while it is enabled.                                 *)
(***************************************************************************)
poll_timer_disable == FALSE

poll_timer_enable == TRUE

\* Variant: the interrupt is entered without disabling the timer.
IsrEnterTimerLeftOn ==
  /\ ~halted
  /\ timer_enabled
  /\ Len(isr) < MaxNest
  /\ isr' = Append(isr, "scan")
  /\ UNCHANGED << key, queue, mod_keys, magic_mode, recording_mode,
                  replay_buf, replay_buf_len, halted, contact, flips, nedges,
                  calls, reports, edges, session, press_seq, unreleased, open,
                  hist, timer_enabled >>

IsrEnter ==
  /\ ~halted
  /\ timer_enabled
  /\ Len(isr) < MaxNest
  /\ timer_enabled' = poll_timer_disable
  /\ isr' = Append(isr, "scan")
  /\ UNCHANGED << key, queue, mod_keys, magic_mode, recording_mode,
                  replay_buf, replay_buf_len, halted, contact, flips, nedges,
                  calls, reports, edges, session, press_seq, unreleased, open,
                  hist >>

IsrScan ==
  \E samp \in Samples :
    /\ isr # << >>
    /\ isr[Len(isr)] = "scan"
    /\ ScanBody(samp)
    /\ isr' = [isr EXCEPT ![Len(isr)] = IF halted' THEN "halted" ELSE "exit"]
    /\ UNCHANGED timer_enabled

IsrExit ==
  /\ isr # << >>
  /\ isr[Len(isr)] = "exit"
  /\ timer_enabled' = poll_timer_enable
  /\ isr' = SubSeq(isr, 1, Len(isr) - 1)
  /\ UNCHANGED << key, queue, mod_keys, magic_mode, recording_mode,
                  replay_buf, replay_buf_len, halted, contact, flips, nedges,
                  calls, reports, edges, session, press_seq, unreleased, open,
                  hist >>

TimerNext == IsrEnter \/ IsrScan \/ IsrExit

QueuePress == \E k \in QueueKeys : KeyPressEdge(k) /\ UNCHANGED nedges

QueueRelease == \E k \in QueueKeys : KeyReleaseEdge(k) /\ UNCHANGED nedges

QueueNext == QueuePress \/ QueueRelease

Budget == nedges < MaxEdges /\ nedges' = nedges + 1

DispatchPress == \E k \in ModeKeys : Budget /\ KeyPressEdge(k)

DispatchRelease == \E k \in ModeKeys : Budget /\ KeyReleaseEdge(k)

Next == DispatchPress \/ DispatchRelease

Spec == Init /\ [][Next]_vars

SpecQueue == Init /\ [][QueueNext]_vars

SpecScan == Init /\ [][ScanNext]_vars

SpecTimer == Init /\ [][TimerNext]_vars

(***************************************************************************)
(* Helpers for the properties.                                             *)
(***************************************************************************)
Slots == 0 .. 5

InSlots(q, code) == \E i \in Slots : q[i] = code

Op(op, arg) == [op |-> op, arg |-> arg]

EmptyReport == [keys |-> [i \in Slots |-> 0], mods |-> 0]

\* The last step dispatched exactly one edge, of this type.
OneEdge(type) == Len(edges) = 1 /\ edges[1].type = type

\* The last step ran replay_keypresses().
Replayed == Len(calls) >= 2 /\ calls[1] = Op("replay_keypresses", 0)

\* The queue operations replay issued after its clear.
ReplayOps == SubSeq(calls, 3, Len(calls))

\* C1: from an empty queue, after n <= 6 presses of distinct normal keys and
\* nothing else, slots 0..n-1 hold those keys' codes, most recent first, and
\* slots n..5 are zero.
C1_MostRecentFirst ==
  (press_seq # Void /\ Len(press_seq) <= 6) =>
    \A i \in Slots :
      queue[i] = IF i < Len(press_seq)
                 THEN Layout(press_seq[Len(press_seq) - i]).value
                 ELSE 0

C1_Witness ==
  /\ press_seq # Void
  /\ Len(press_seq) = 6
  /\ queue[0] = Layout(press_seq[6]).value
  /\ queue[5] = Layout(press_seq[1]).value

\* Six distinct normal keys are held and fill the six slots.
SixHeld ==
  /\ \A i \in Slots : queue[i] # 0
  /\ \A i, j \in Slots : i # j => queue[i] # queue[j]
  /\ \A i \in Slots : \E j \in Keys :
        /\ ~IS_MODIFIER(Layout(j))
        /\ Layout(j).value = queue[i]
        /\ key[j].pressed

\* C2: a seventh distinct normal key pressed while six are held puts its code
\* in slot 0, moves the other five back by one, drops the code of slot 5,
\* and neither dispatches a release edge nor calls a release primitive; the
\* evicted key's pressed flag stays set.
C2_SeventhEvictsOldest ==
  [][ \A k \in Keys :
        ( /\ SixHeld
          /\ ~magic_mode
          /\ ~IS_MODIFIER(Layout(k))
          /\ ~InSlots(queue, Layout(k).value)
          /\ Len(edges') = 1
          /\ edges'[1].type = "press"
          /\ edges'[1].k = k )
        =>
        ( /\ queue'[0] = Layout(k).value
          /\ \A i \in 1 .. 5 : queue'[i] = queue[i - 1]
          /\ ~InSlots(queue', queue[5])
          /\ \A i \in 1 .. Len(calls') : calls'[i].op # "ll_key_release"
          /\ \A j \in Keys :
                (~IS_MODIFIER(Layout(j)) /\ Layout(j).value = queue[5])
                  => key'[j].pressed ) ]_vars

C2_Witness ==
  /\ press_seq # Void
  /\ Len(press_seq) = 7
  /\ key[press_seq[1]].pressed
  /\ ~InSlots(queue, Layout(press_seq[1]).value)
  /\ queue[0] = Layout(press_seq[7]).value
  /\ calls = << Op("ll_key_press", Layout(press_seq[7]).value) >>

\* C3: releasing a normal key whose code is in none of the six slots leaves
\* the six slots and the modifier mask as they were, and the firmware runs on.
C3_ReleaseAbsentIsNoop ==
  [][ ( /\ Len(edges') = 1
        /\ edges'[1].type = "release"
        /\ ~edges'[1].magic
        /\ ~IS_MODIFIER(Layout(edges'[1].k))
        /\ ~InSlots(queue, Layout(edges'[1].k).value) )
      =>
      ( /\ \A i \in Slots : queue'[i] = queue[i]
        /\ mod_keys' = mod_keys
        /\ ~halted' ) ]_vars

\* An evicted key has been released: its release primitive ran on a queue
\* that did not hold its code.
C3_Witness ==
  /\ OneEdge("release")
  /\ ~edges[1].magic
  /\ ~edges[1].queued
  /\ ~IS_MODIFIER(Layout(edges[1].k))
  /\ calls = << Op("ll_key_release", Layout(edges[1].k).value) >>
  /\ \A i \in Slots : queue[i] # 0
  /\ mod_keys # 0

\* C4: the report queue never holds a nonzero code in more than one of its
\* six slots (and never more than six codes).
C4_NoDuplicateCodes ==
  /\ Cardinality({i \in Slots : queue[i] # 0}) <= 6
  /\ \A i, j \in Slots : (i # j /\ queue[i] # 0) => queue[i] # queue[j]

\* C5 as stated: a press edge is emitted for a key only if no press edge
\* has been emitted for it since its last release edge.
C5_OnePressPerRelease ==
  \A i \in 1 .. Len(edges) :
    edges[i].type = "press" => ~edges[i].unreleased

\* C5: a press edge is emitted for a key only when its register reads
\* 0b01111111, and only if no press edge has been emitted for it since its
\* pressed flag was last reset (by a release edge, by clear_pressed() or by
\* a replayed release).
C5_OnePressPerReset ==
  \A i \in 1 .. Len(edges) :
    edges[i].type = "press" => (edges[i].bounce = 127 /\ ~edges[i].open)

\* A held key is pressed again after clear_pressed() reset its flag.
C5_Witness ==
  \E i \in 1 .. Len(edges) :
    /\ edges[i].type = "press"
    /\ edges[i].bounce = 127
    /\ edges[i].unreleased
    /\ ~edges[i].open

\* C6 as stated: an edge dispatched in magic mode invokes no queue primitive
\* and sends no report, unless it is the replay of the macro.
C6_MagicEdgesSilent ==
  \A i \in 1 .. Len(edges) :
    edges[i].magic =>
      \/ calls = << >> /\ reports = << >>
      \/ Replayed

SelfTestOps ==
  << Op("ll_key_press", KEY_X), Op("ll_key_release", KEY_X),
     Op("ll_key_press", KEY_X), Op("ll_key_release", KEY_X) >>

\* C6: an edge dispatched in magic mode invokes queue primitives or sends
\* reports only as the replay key's press (the replay), the self-test key's
\* press (two press/release pairs of KEY_X) or the record key's release (the
\* clear and its one empty report); every other edge in magic mode, the
\* trigger key's included, invokes nothing and sends nothing.
C6_MagicEdgesCommandsOnly ==
  \A i \in 1 .. Len(edges) :
    edges[i].magic =>
      LET v == Layout(edges[i].k).value
          t == edges[i].type
      IN  IF t = "press" /\ v = KEY_R THEN Replayed
          ELSE IF t = "press" /\ v = KEY_X
          THEN calls = SelfTestOps /\ Len(reports) = 4
          ELSE IF t = "release" /\ v = KEY_Q
          THEN calls = << Op("clear_pressed", 0) >> /\ reports = << EmptyReport >>
          ELSE calls = << >> /\ reports = << >>

C6_Witness ==
  /\ OneEdge("press")
  /\ edges[1].magic
  /\ edges[1].k = K_X
  /\ calls = SelfTestOps
  /\ Len(reports) = 4

\* C7: magic_mode and recording_mode are never both set; magic mode is
\* entered only with recording off, and recording starts only in a step
\* that leaves magic mode.
C7_ModesExclusive ==
  /\ [](~(magic_mode /\ recording_mode))
  /\ [][ /\ (magic_mode' /\ ~magic_mode) => ~recording_mode
         /\ (recording_mode' /\ ~recording_mode) => (magic_mode /\ ~magic_mode')
       ]_vars

C7_Witness ==
  /\ OneEdge("release")
  /\ edges[1].magic
  /\ recording_mode
  /\ ~magic_mode

\* C8: replay of a session that did not overflow starts from a cleared
\* queue and issues exactly the operations that were forwarded to the
\* queue while the session was recorded, in the same order.
C8_ReplayRoundTrip ==
  (Replayed /\ ~session.overflowed) =>
    /\ calls[2] = Op("clear_pressed", 0)
    /\ Len(reports) >= 1
    /\ reports[1] = EmptyReport
    /\ ReplayOps = session.ops

C8_Witness ==
  /\ Replayed
  /\ ~session.overflowed
  /\ session.ops = << Op("ll_key_press", KEY_A), Op("ll_key_release", KEY_A),
                      Op("ll_key_press", KEY_X) >>
  /\ ReplayOps = session.ops

\* The operation replay is to issue for entry i of the buffer: a press if
\* the key occurs an even number of times before i, a release otherwise.
ExpectedOp(buf, i) ==
  LET k == buf[i]
      n == Cardinality({j \in 1 .. (i - 1) : buf[j] = k})
      l == Layout(k)
  IN  IF n % 2 = 0
      THEN Op(IF IS_MODIFIER(l) THEN "ll_modifier_press" ELSE "ll_key_press", l.value)
      ELSE Op(IF IS_MODIFIER(l) THEN "ll_modifier_release" ELSE "ll_key_release",
              l.value)

\* C9: replay issues one operation per buffer entry, a press if the entry's
\* key occurs an even number of times earlier in the buffer and a release
\* otherwise.
C9_ReplayByParity ==
  Replayed =>
    /\ Len(ReplayOps) = replay_buf_len
    /\ \A i \in 1 .. replay_buf_len : ReplayOps[i] = ExpectedOp(replay_buf, i)

C9_Witness ==
  /\ Replayed
  /\ replay_buf_len >= 2
  /\ replay_buf[1] = K_A
  /\ replay_buf[2] = K_A
  /\ ReplayOps[1] = Op("ll_key_press", KEY_A)
  /\ ReplayOps[2] = Op("ll_key_release", KEY_A)

\* C10: the macro buffer never holds more than sizeof(replay_buf) entries,
\* and a recorded edge that finds no room leaves the stored entries and the
\* length as they were.
C10_BufferBounded ==
  /\ [](replay_buf_len <= ReplayBufSize /\ Len(replay_buf) = replay_buf_len)
  /\ [][ ( /\ Len(edges') = 1
           /\ edges'[1].recording
           /\ ~edges'[1].magic
           /\ ~is_magic_key(edges'[1].k)
           /\ ~(replay_buf_len + 1 < ReplayBufSize) )
         => (replay_buf' = replay_buf /\ replay_buf_len' = replay_buf_len) ]_vars

C10_Witness ==
  /\ Len(edges) = 1
  /\ edges[1].recording
  /\ session.overflowed
  /\ ~recording_mode
  /\ replay_buf_len = ReplayBufSize - 1
  /\ Len(replay_buf) = replay_buf_len

\* The edge the step dispatches is a recorded one: recording is on, magic
\* mode is off and the key is not the trigger key.
RecordedEdge ==
  /\ Len(edges') = 1
  /\ edges'[1].recording
  /\ ~edges'[1].magic
  /\ ~is_magic_key(edges'[1].k)

\* C11: a recorded edge that finds fewer than sizeof(replay_buf) entries
\* is appended and leaves recording mode on; only the edge that finds the
\* buffer holding sizeof(replay_buf) entries forces recording mode off.
C11_StoresUpToSize ==
  [][ (RecordedEdge /\ replay_buf_len < ReplayBufSize) =>
        /\ replay_buf' = Append(replay_buf, edges'[1].k)
        /\ replay_buf_len' = replay_buf_len + 1
        /\ recording_mode' ]_vars

\* C12: in magic mode the release edge of the record key empties the macro
\* buffer, sets recording_mode, clears magic_mode, zeroes the slots and the
\* modifier mask and sends one empty report; the press edge of the record
\* key starts nothing; neither edge is stored in the buffer.
C12_RecordStartsOnRelease ==
  [][ \A i \in 1 .. Len(edges') :
        (edges'[i].magic /\ Layout(edges'[i].k).value = KEY_Q) =>
          IF edges'[i].type = "release"
          THEN /\ replay_buf' = << >>
               /\ replay_buf_len' = 0
               /\ recording_mode'
               /\ ~magic_mode'
               /\ \A j \in Slots : queue'[j] = 0
               /\ mod_keys' = 0
               /\ reports' = << EmptyReport >>
          ELSE /\ UNCHANGED << replay_buf, replay_buf_len, recording_mode,
                               magic_mode, queue, mod_keys >>
               /\ reports' = << >> ]_vars

\* The record key, held since before magic mode, is released: a session
\* starts and the clear takes the key's code out of the report.
C12_Witness ==
  /\ OneEdge("release")
  /\ edges[1].magic
  /\ edges[1].k = K_Q
  /\ edges[1].queued
  /\ recording_mode
  /\ ~magic_mode
  /\ replay_buf_len = 0
  /\ reports = << EmptyReport >>

\* C13: a press edge of the trigger key changes only the mode (and its own
\* pressed flag): recording on -> recording off and no magic, with the macro
\* buffer as captured; normal -> magic; magic -> normal with no command run;
\* the slots and the modifier mask stay as they were.
C13_TriggerChangesModeOnly ==
  [][ \A i \in 1 .. Len(edges') :
        (edges'[i].type = "press" /\ is_magic_key(edges'[i].k)) =>
          /\ UNCHANGED << queue, mod_keys, replay_buf, replay_buf_len >>
          /\ calls' = << >>
          /\ reports' = << >>
          /\ key' = [key EXCEPT ![edges'[i].k].pressed = TRUE]
          /\ IF recording_mode
             THEN ~recording_mode' /\ ~magic_mode'
             ELSE ~recording_mode' /\ magic_mode' = ~magic_mode ]_vars

\* The trigger key has just ended a recording that captured something
\* while a recorded key is still in the report.
C13_Witness ==
  /\ OneEdge("press")
  /\ edges[1].k = K_MAGIC
  /\ edges[1].recording
  /\ ~recording_mode
  /\ ~magic_mode
  /\ replay_buf_len > 0
  /\ queue[0] # 0

ClearCalled(cs) == \E i \in 1 .. Len(cs) : cs[i].op = "clear_pressed"

\* C15 as stated: the clear is issued in every step that turns recording
\* mode on and in every step that turns it off.
C15_ClearOnEnterAndLeave ==
  [][ (recording_mode' # recording_mode) => ClearCalled(calls') ]_vars

\* C15: the clear (six slots and modifier byte zeroed, empty report sent) is
\* issued in the step that turns recording mode on; a step that turns
\* recording mode off, by the trigger key or by buffer overflow, issues no
\* clear.
C15_ClearOnEnterOnly ==
  [][ /\ (recording_mode' /\ ~recording_mode) =>
           /\ calls' = << Op("clear_pressed", 0) >>
           /\ reports' = << EmptyReport >>
           /\ \A i \in Slots : queue'[i] = 0
           /\ mod_keys' = 0
      /\ (recording_mode /\ ~recording_mode') => ~ClearCalled(calls') ]_vars

\* Recording has just ended by overflow and the report still holds a code.
C15_Witness ==
  /\ Len(edges) = 1
  /\ edges[1].recording
  /\ ~recording_mode
  /\ session.overflowed
  /\ ~ClearCalled(calls)
  /\ queue[0] # 0

\* The keys magic mode gives a meaning to.
CommandKey(k) ==
  \/ is_magic_key(k)
  \/ Layout(k).value \in {KEY_X, KEY_R, KEY_B, KEY_Q}

\* C16: in magic mode a press or release edge of a key that is neither the
\* trigger key nor a command key changes that key's pressed flag and nothing
\* else, and sends no report.
C16_MagicAbsorbsOtherKeys ==
  [][ \A i \in 1 .. Len(edges') :
        (edges'[i].magic /\ ~CommandKey(edges'[i].k)) =>
          /\ UNCHANGED << queue, mod_keys, magic_mode, recording_mode,
                          replay_buf, replay_buf_len >>
          /\ calls' = << >>
          /\ reports' = << >>
          /\ key' = [key EXCEPT
                       ![edges'[i].k].pressed = (edges'[i].type = "press")] ]_vars

\* A key held since before magic mode is released in magic mode.
C16_Witness ==
  /\ OneEdge("release")
  /\ edges[1].magic
  /\ edges[1].k = K_A
  /\ edges[1].queued
  /\ magic_mode
  /\ ~key[K_A].pressed
  /\ reports = << >>

Occurrences(buf, k) == Cardinality({j \in 1 .. Len(buf) : buf[j] = k})

\* C17: the press of the replay key in magic mode leaves magic mode and runs
\* the replay, which starts with the clear (empty report; every pressed flag
\* reset, so that afterwards a key is pressed exactly if the buffer names it
\* an odd number of times); the macro buffer is not changed and the step
\* ends with both mode flags clear.
C17_ReplayKeepsBufferAndModes ==
  [][ \A i \in 1 .. Len(edges') :
        ( /\ edges'[i].magic
          /\ edges'[i].type = "press"
          /\ Layout(edges'[i].k).value = KEY_R ) =>
          /\ Len(calls') >= 2
          /\ calls'[1] = Op("replay_keypresses", 0)
          /\ calls'[2] = Op("clear_pressed", 0)
          /\ Len(reports') >= 1
          /\ reports'[1] = EmptyReport
          /\ UNCHANGED << replay_buf, replay_buf_len >>
          /\ ~magic_mode'
          /\ ~recording_mode'
          /\ \A k \in Keys :
               key'[k].pressed = (Occurrences(replay_buf, k) % 2 = 1) ]_vars

\* A replay of a non-empty buffer has run while another key was held.
C17_Witness ==
  /\ Replayed
  /\ OneEdge("press")
  /\ edges[1].k = K_R
  /\ replay_buf_len >= 2
  /\ ~magic_mode
  /\ ~recording_mode
  /\ ~key[K_R].pressed
  /\ ~key[K_MAGIC].pressed

\* C18: releasing a normal key whose code is in the six slots removes the
\* first occurrence of the code, moves the later entries one slot to the
\* front in their order and leaves slot 5 zero; the seventh slot is always
\* zero; the modifier mask is not changed.
C18_ReleaseRemovesFirst ==
  /\ [](queue[6] = 0)
  /\ [][ \A f \in Slots :
           ( /\ Len(edges') = 1
             /\ edges'[1].type = "release"
             /\ ~edges'[1].magic
             /\ ~IS_MODIFIER(Layout(edges'[1].k))
             /\ queue[f] = Layout(edges'[1].k).value
             /\ \A j \in 0 .. (f - 1) : queue[j] # queue[f] ) =>
             /\ \A j \in 0 .. (f - 1) : queue'[j] = queue[j]
             /\ \A j \in f .. 4 : queue'[j] = queue[j + 1]
             /\ queue'[5] = 0
             /\ mod_keys' = mod_keys ]_vars

\* The released code sat in front of another one, which moved up.
C18_Witness ==
  /\ OneEdge("release")
  /\ ~edges[1].magic
  /\ edges[1].queued
  /\ ~IS_MODIFIER(Layout(edges[1].k))
  /\ calls = << Op("ll_key_release", Layout(edges[1].k).value) >>
  /\ queue[0] # 0
  /\ queue[1] # 0
  /\ queue[5] = 0

\* C20: every nonzero code in the six slots and every bit of the modifier
\* mask belongs to a key whose pressed flag is set.
C20_ReportedKeysArePressed ==
  /\ \A i \in Slots :
       queue[i] # 0 =>
         \E k \in Keys : /\ ~IS_MODIFIER(Layout(k))
                         /\ Layout(k).value = queue[i]
                         /\ key[k].pressed
  /\ mod_keys = 0 \/
       \E k \in Keys : /\ IS_MODIFIER(Layout(k))
                       /\ Layout(k).value = mod_keys
                       /\ key[k].pressed

\* C14: at most one invocation of the scan interrupt is active at a time;
\* the timer is disabled for as long as one is, and an invocation starts
\* only when none is active.
C14_ScanCyclesDoNotOverlap ==
  /\ [](Len(isr) <= 1 /\ (isr # << >> => ~timer_enabled))
  /\ [][ Len(isr') > Len(isr) => isr = << >> ]_vars

\* A second scan cycle is running, after the first returned having
\* dispatched an edge.
C14_Witness ==
  /\ Len(isr) = 1
  /\ isr[1] = "exit"
  /\ ~timer_enabled
  /\ key[K_MAGIC].pressed
  /\ Len(edges) = 0

LastSeven(h) == SubSeq(h, 2, 8)

\* C19: in a scan cycle a key gets a press edge only if its pressed flag is
\* clear and its seven most recent samples are all 1, and a release edge only
\* if its pressed flag is set and its seven most recent samples are all 0
\* with a 1 before them; no key gets two edges in one cycle.
C19_EdgesNeedSevenSamples ==
  /\ \A i \in 1 .. Len(edges) :
       LET e == edges[i]
           h == hist[e.k]
       IN  IF e.type = "press"
           THEN ~e.pressed /\ LastSeven(h) = << 1, 1, 1, 1, 1, 1, 1 >>
           ELSE e.pressed /\ LastSeven(h) = << 0, 0, 0, 0, 0, 0, 0 >> /\ h[1] = 1
  /\ \A i, j \in 1 .. Len(edges) : i # j => edges[i].k # edges[j].k

\* A key has been released after seven 0 samples.
C19_Witness ==
  \E i \in 1 .. Len(edges) :
    /\ edges[i].type = "release"
    /\ edges[i].pressed
    /\ hist[edges[i].k] = << 1, 0, 0, 0, 0, 0, 0, 0 >>
    /\ ~key[edges[i].k].pressed

====
